---- MODULE Spec2Model ----
(***************************************************************************)
(* PointWFI, the pointing/dither helper of the Roman I-Sim notebook.       *)
(*                                                                         *)
(* The class delegates all geometry to pysiaf.  The rotations are modelled *)
(* as pysiaf computes them (products of the fundamental rotation matrices, *)
(* unit vectors, arcsin/arctan2), on the lattice of right angles: every    *)
(* angle is a multiple of 90 degrees (324000 arcseconds), so that sines    *)
(* and cosines are exactly -1, 0 or 1 and every attitude is an exact 3x3   *)
(* integer matrix (one of the 24 rotations of the cube).  Floating-point   *)
(* NaN is one extra value that every arithmetic operation propagates.      *)
(***************************************************************************)
EXTENDS Integers, Sequences, FiniteSets, TLC

VARIABLES self, op, ret, ctor, n, last_success, twin, threads, dask, cat,
          sim, pair

\* the pointing object and the history of the calls made on it
pointing_vars == <<self, op, ret, ctor, n, last_success>>

vars ==
  <<self, op, ret, ctor, n, last_success, twin, threads, dask, cat, sim, pair>>

(* ------------------------------ bounds -------------------------------- *)

MaxDithers == 3

\* a dither that raises is among the last MaxRaisingCall dither calls explored
MaxRaisingCall == 1

(* ------------------------- floating point ----------------------------- *)

\* the IEEE not-a-number, the representative of the non-finite floats
NaN == 999999

\* The numeric helpers are functions, applied to values, as the Python
\* functions they model are called by value.
Floats == Int

\* an array of floats
Vectors == Seq(Floats)

\* a two-dimensional array of floats
Matrices == Seq(Vectors)

ArcsecPerDeg == 3600

RightAngle == 90 * ArcsecPerDeg

fneg[a \in Floats] == IF a = NaN THEN NaN ELSE 0 - a

fadd[a \in Floats, b \in Floats] == IF a = NaN \/ b = NaN THEN NaN ELSE a + b

fsub[a \in Floats, b \in Floats] == IF a = NaN \/ b = NaN THEN NaN ELSE a - b

fmul[a \in Floats, b \in Floats] == IF a = NaN \/ b = NaN THEN NaN ELSE a * b

\* arcseconds to degrees, x / 3600.
todeg[a \in Floats] == IF a = NaN THEN NaN ELSE a \div ArcsecPerDeg

\* np.cos(np.deg2rad(a)) on the lattice
cosd[a \in Floats] ==
  IF a = NaN THEN NaN
  ELSE CASE a % 360 = 0 -> 1
         [] a % 360 = 90 -> 0
         [] a % 360 = 180 -> -1
         [] a % 360 = 270 -> 0

\* np.sin(np.deg2rad(a)) on the lattice
sind[a \in Floats] ==
  IF a = NaN THEN NaN
  ELSE CASE a % 360 = 0 -> 0
         [] a % 360 = 90 -> 1
         [] a % 360 = 180 -> 0
         [] a % 360 = 270 -> -1

\* np.rad2deg(np.arcsin(s))
arcsind[s \in Floats] ==
  IF s = NaN THEN NaN
  ELSE CASE s = 0 -> 0
         [] s = 1 -> 90
         [] s = -1 -> -90

\* np.rad2deg(np.arctan2(y, x)); arctan2(0, 0) is 0
arctan2d[y \in Floats, x \in Floats] ==
  IF y = NaN \/ x = NaN THEN NaN
  ELSE CASE y = 0 /\ x >= 0 -> 0
         [] y > 0 /\ x = 0 -> 90
         [] y = 0 /\ x < 0 -> 180
         [] y < 0 /\ x = 0 -> -90

(* ---------------------- pysiaf.utils.rotations ------------------------ *)

dot3[a \in Vectors, b \in Vectors] ==
  fadd[fadd[fmul[a[1], b[1]], fmul[a[2], b[2]]], fmul[a[3], b[3]]]

col[m \in Matrices, j \in 1..3] == <<m[1][j], m[2][j], m[3][j]>>

\* np.dot(a, b) of two 3x3 matrices
matmul[a \in Matrices, b \in Matrices] ==
  LET c1 == col[b, 1]
      c2 == col[b, 2]
      c3 == col[b, 3]
  IN <<<<dot3[a[1], c1], dot3[a[1], c2], dot3[a[1], c3]>>,
       <<dot3[a[2], c1], dot3[a[2], c2], dot3[a[2], c3]>>,
       <<dot3[a[3], c1], dot3[a[3], c2], dot3[a[3], c3]>>>>

\* np.dot(m, v) of a 3x3 matrix and a vector
matvec[m \in Matrices, v \in Vectors] == <<dot3[m[1], v], dot3[m[2], v], dot3[m[3], v]>>

\* rotate(axis, angle): the fundamental rotation about axis 1, 2 or 3
rotate[axis \in 1..3, angle \in Floats] ==
  LET ax0 == axis
      ax1 == (axis % 3) + 1
      ax2 == ((axis + 1) % 3) + 1
      c == cosd[angle]
      s == sind[angle]
      r(i, j) == IF i = ax0 /\ j = ax0 THEN 1
                 ELSE IF (i = ax1 /\ j = ax1) \/ (i = ax2 /\ j = ax2) THEN c
                 ELSE IF i = ax1 /\ j = ax2 THEN fneg[s]
                 ELSE IF i = ax2 /\ j = ax1 THEN s
                 ELSE 0
  IN <<<<r(1, 1), r(1, 2), r(1, 3)>>,
       <<r(2, 1), r(2, 2), r(2, 3)>>,
       <<r(3, 1), r(3, 2), r(3, 3)>>>>

\* attitude(v2, v3, ra, dec, pa): v2, v3 in arcseconds, the rest in degrees
attitude[v2 \in Floats, v3 \in Floats, ra \in Floats, dec \in Floats, pa \in Floats] ==
  LET mv2 == rotate[3, fneg[todeg[v2]]]
      mv3 == rotate[2, todeg[v3]]
      mra == rotate[3, ra]
      mdec == rotate[2, fneg[dec]]
      mpa == rotate[1, fneg[pa]]
  IN matmul[mra, matmul[mdec, matmul[mpa, matmul[mv3, mv2]]]]

\* unit(ra, dec): the unit vector of a direction given in degrees
unit[ra \in Floats, dec \in Floats] ==
  <<fmul[cosd[ra], cosd[dec]], fmul[sind[ra], cosd[dec]], sind[dec]>>

\* radec(u, positive_ra=True)
radec[u \in Vectors] ==
  LET norm == IF u[1] = NaN \/ u[2] = NaN \/ u[3] = NaN THEN NaN ELSE 1
      dec == IF norm = NaN THEN NaN ELSE arcsind[u[3]]
      ra == arctan2d[u[2], u[1]]
  IN <<IF ra # NaN /\ ra < 0 THEN ra + 360 ELSE ra, dec>>

\* pointing(attitude, v2, v3): sky position of the telescope point (v2, v3)
pointing[att \in Matrices, v2 \in Floats, v3 \in Floats] == radec[matvec[att, unit[todeg[v2], todeg[v3]]]]

\* posangle(attitude, v2, v3): position angle of V3 at (v2, v3)
posangle[A \in Matrices, v2 \in Floats, v3 \in Floats] ==
  LET v2r == todeg[v2]
      v3r == todeg[v3]
      x == fadd[fmul[fneg[fadd[fmul[A[3][1], cosd[v2r]],
                               fmul[A[3][2], sind[v2r]]]], sind[v3r]],
                fmul[A[3][3], cosd[v3r]]]
      y == fadd[fmul[fsub[fmul[A[1][1], A[2][3]], fmul[A[2][1], A[1][3]]],
                     cosd[v2r]],
                fmul[fsub[fmul[A[1][2], A[2][3]], fmul[A[2][2], A[1][3]]],
                     sind[v2r]]]
  IN arctan2d[y, x]

(* -------------------- pysiaf aperture 'WFI_CEN' ----------------------- *)

\* WFI_CEN in the Roman SIAF has V2Ref = 1546.38", V3Ref = -892.79",
\* V3IdlYAngle = -60 degrees and VIdlParity = -1; with these values the
\* formulas of this module give the docstring's example
\* (ra=30, dec=-45, roll_angle=10, dither(10, 140) -> 29.95536280064078,
\* -44.977122003232786) to the last digit.  On the lattice the reference
\* point stays off the boresight (one right angle along V2) and the ideal
\* frame stays rotated and flipped against the telescope frame.
V2Ref == RightAngle

V3Ref == 0

V3IdlYAngle == -90

VIdlParity == -1

\* Aperture.idl_to_tel(x_idl, y_idl), method 'planar_approximation'
idl_to_tel[x_idl \in Floats, y_idl \in Floats] ==
  LET a == V3IdlYAngle
  IN <<fadd[fadd[V2Ref, fmul[fmul[VIdlParity, x_idl], cosd[a]]],
            fmul[y_idl, sind[a]]],
       fadd[fsub[V3Ref, fmul[fmul[VIdlParity, x_idl], sind[a]]],
            fmul[y_idl, cosd[a]]]>>

\* Aperture.tel_to_sky(v2, v3) under the aperture's attitude matrix
tel_to_sky[aperture \in Matrices, v2 \in Floats, v3 \in Floats] == pointing[aperture, v2, v3]

\* Aperture.idl_to_sky(x_idl, y_idl) under the aperture's attitude matrix
idl_to_sky[aperture \in Matrices, x_idl \in Floats, y_idl \in Floats] ==
  LET tel == idl_to_tel[x_idl, y_idl]
  IN tel_to_sky[aperture, tel[1], tel[2]]

(* ------------------------------ PointWFI ------------------------------ *)

\* no PointWFI object exists
NoInstance == [exists |-> FALSE]

\* _update_boresight_position that leaves the attitude_matrix attribute
update_boresight_position_keeps_attitude(s) ==
  LET boresight_sky == tel_to_sky[s.siaf_aperture, 0, 0]
      tel_ra == boresight_sky[1]
      tel_dec == boresight_sky[2]
      am == attitude[0, 0, tel_ra, tel_dec, s.roll_angle]
  IN [s EXCEPT !.tel_ra = tel_ra,
               !.tel_dec = tel_dec,
               !.tel_roll = posangle[am, 0, 0]]

\* _update_boresight_position whose attitude is also the aperture's
update_boresight_position_on_aperture(s) ==
  LET boresight_sky == tel_to_sky[s.siaf_aperture, 0, 0]
      tel_ra == boresight_sky[1]
      tel_dec == boresight_sky[2]
      am == attitude[0, 0, tel_ra, tel_dec, s.roll_angle]
  IN [s EXCEPT !.tel_ra = tel_ra,
               !.tel_dec = tel_dec,
               !.attitude_matrix = am,
               !.siaf_aperture = am,
               !.tel_roll = posangle[am, 0, 0]]

\* _update_boresight_position that writes the boresight position over the
\* target position
update_boresight_position_moves_target(s) ==
  LET boresight_sky == tel_to_sky[s.siaf_aperture, 0, 0]
      tel_ra == boresight_sky[1]
      tel_dec == boresight_sky[2]
      am == attitude[0, 0, tel_ra, tel_dec, s.roll_angle]
  IN [s EXCEPT !.tel_ra = tel_ra,
               !.tel_dec = tel_dec,
               !.ra = tel_ra,
               !.dec = tel_dec,
               !.attitude_matrix = am,
               !.tel_roll = posangle[am, 0, 0]]

\* _update_boresight_position that writes the recovered position angle
\* into roll_angle instead of tel_roll
update_boresight_position_writes_roll(s) ==
  LET boresight_sky == tel_to_sky[s.siaf_aperture, 0, 0]
      tel_ra == boresight_sky[1]
      tel_dec == boresight_sky[2]
      am == attitude[0, 0, tel_ra, tel_dec, s.roll_angle]
  IN [s EXCEPT !.tel_ra = tel_ra,
               !.tel_dec = tel_dec,
               !.attitude_matrix = am,
               !.roll_angle = posangle[am, 0, 0]]

\* _update_boresight_position that also resets the reference point to the
\* boresight it computes the attitude for
update_boresight_position_resets_ref(s) ==
  LET boresight_sky == tel_to_sky[s.siaf_aperture, 0, 0]
      tel_ra == boresight_sky[1]
      tel_dec == boresight_sky[2]
      am == attitude[0, 0, tel_ra, tel_dec, s.roll_angle]
  IN [s EXCEPT !.tel_ra = tel_ra,
               !.tel_dec = tel_dec,
               !.v2_ref = 0,
               !.v3_ref = 0,
               !.attitude_matrix = am,
               !.tel_roll = posangle[am, 0, 0]]

\* PointWFI._update_boresight_position
update_boresight_position(s) ==
  LET boresight_sky == tel_to_sky[s.siaf_aperture, 0, 0]
      tel_ra == boresight_sky[1]
      tel_dec == boresight_sky[2]
      am == attitude[0, 0, tel_ra, tel_dec, s.roll_angle]
  IN [s EXCEPT !.tel_ra = tel_ra,
               !.tel_dec = tel_dec,
               !.attitude_matrix = am,
               !.tel_roll = posangle[am, 0, 0]]

\* the dataclass __init__ followed by PointWFI.__post_init__
post_init(ra, dec, roll_angle) ==
  LET am == attitude[V2Ref, V3Ref, ra, dec, roll_angle]
  IN update_boresight_position(
       [exists |-> TRUE, ra |-> ra, dec |-> dec, roll_angle |-> roll_angle,
        v2_ref |-> V2Ref, v3_ref |-> V3Ref,
        attitude_matrix |-> am,
        siaf_aperture |-> am,
        tel_ra |-> 0, tel_dec |-> 0, tel_roll |-> 0])

\* dither that adds the offset to the stored right ascension and declination
dither_new_position_flat(s, x_offset, y_offset) ==
  <<fadd[s.ra, todeg[x_offset]], fadd[s.dec, todeg[y_offset]]>>

\* dither that reads the offset as telescope (V2, V3) coordinates
dither_new_position_tel(s, x_offset, y_offset) ==
  tel_to_sky[s.siaf_aperture, x_offset, y_offset]

\* PointWFI.dither, first statement: the new position, under the aperture's
\* attitude in force before the call
dither_new_position(s, x_offset, y_offset) ==
  idl_to_sky[s.siaf_aperture, x_offset, y_offset]

\* dither that rebuilds the attitude from the position before the call
dither_attitude_stale(s, new) ==
  [s EXCEPT !.attitude_matrix =
     attitude[s.v2_ref, s.v3_ref, s.ra, s.dec, s.roll_angle]]

\* PointWFI.dither, second statement: the rebuilt attitude matrix
dither_attitude(s, new) ==
  [s EXCEPT !.attitude_matrix =
     attitude[s.v2_ref, s.v3_ref, new[1], new[2], s.roll_angle]]

\* dither that never installs the rebuilt attitude on the aperture
dither_set_attitude_skipped(s) == s

\* PointWFI.dither, third statement: siaf_aperture.set_attitude_matrix
dither_set_attitude(s) ==
  [s EXCEPT !.siaf_aperture = s.attitude_matrix]

\* PointWFI.dither, last two statements
dither_store(s, new) == [s EXCEPT !.ra = new[1], !.dec = new[2]]

\* a dither that refreshes the boresight before it installs the new attitude
dither_boresight_first(s, x_offset, y_offset) ==
  LET new == dither_new_position(s, x_offset, y_offset)
  IN dither_store(
       dither_set_attitude(
         dither_attitude(update_boresight_position(s), new)), new)

\* PointWFI.dither(x_offset, y_offset), run to completion
dither(s, x_offset, y_offset) ==
  LET new == dither_new_position(s, x_offset, y_offset)
  IN dither_store(
       update_boresight_position(
         dither_set_attitude(dither_attitude(s, new))), new)

\* a dither that stores ra and dec before it updates the boresight
dither_raising_store_first(s, x_offset, y_offset, k) ==
  LET new == dither_new_position(s, x_offset, y_offset)
  IN CASE k = 1 -> s
       [] k = 2 -> s
       [] k = 3 -> dither_attitude(s, new)
       [] k = 4 -> dither_store(
                     dither_set_attitude(dither_attitude(s, new)), new)

\* PointWFI.dither(x_offset, y_offset) when its k-th call raises: the
\* statements before the call have run, the rest have not
\*   1 idl_to_sky, 2 attitude, 3 set_attitude_matrix,
\*   4 _update_boresight_position
dither_raising(s, x_offset, y_offset, k) ==
  LET new == dither_new_position(s, x_offset, y_offset)
  IN CASE k = 1 -> s
       [] k = 2 -> s
       [] k = 3 -> dither_attitude(s, new)
       [] k = 4 -> dither_set_attitude(dither_attitude(s, new))

(* ------------------------------ inputs -------------------------------- *)

\* constructor arguments: on the lattice; dec = 180 is out of [-90, 90]
RaArgs == {0, 90, 270}

DecArgs == {0, 90, 180}

RollArgs == {0, 270}

\* dither offsets in arcseconds, and a non-finite one
Offsets == {0, RightAngle, 0 - RightAngle, NaN}

ValidDec(dec) == dec # NaN /\ -90 <= dec /\ dec <= 90

Finite(a) == a # NaN

(* --------------------------- state machine ---------------------------- *)

NoOp == [kind |-> "none", x |-> 0, y |-> 0, outcome |-> "ok"]

\* no dither call is in progress on a thread
NoThreads == <<>>

\* the parallel cell has not been run
NoDask == [phase |-> "none"]

\* the catalog cell has not been run
NoCatalog == [phase |-> "none"]

\* no simulation has been run
NoSim == [phase |-> "none"]

\* no pair of pointings exists: no instance, no aperture object
NoPair ==
  [inst |-> <<NoInstance, NoInstance>>, apertures |-> <<>>, k |-> 0,
   last |-> 0, offsets |-> <<>>, done |-> <<0, 0>>]

Init ==
  /\ self = NoInstance
  /\ op = NoOp
  /\ ret = <<>>
  /\ ctor = <<>>
  /\ n = 0
  /\ last_success = <<>>
  /\ twin = NoInstance
  /\ threads = NoThreads
  /\ dask = NoDask
  /\ cat = NoCatalog
  /\ sim = NoSim
  /\ pair = NoPair

\* pointing = PointWFI(ra=..., dec=..., roll_angle=...)
Construct(ra, dec, roll_angle) ==
  /\ ~self.exists
  /\ self' = post_init(ra, dec, roll_angle)
  /\ op' = [kind |-> "construct", x |-> 0, y |-> 0, outcome |-> "ok"]
  /\ ret' = <<>>
  /\ ctor' = <<ra, dec, roll_angle>>
  /\ n' = 0
  /\ last_success' = <<ra, dec>>
  /\ UNCHANGED <<twin, threads, dask, cat, sim, pair>>

\* a dither that is refused once the instance has been dithered
DitherOnlyOnce(x_offset, y_offset) ==
  /\ self.exists
  /\ n < 1
  /\ self' = dither(self, x_offset, y_offset)
  /\ op' = [kind |-> "dither", x |-> x_offset, y |-> y_offset,
            outcome |-> "ok"]
  /\ ret' = <<>>
  /\ n' = n + 1
  /\ last_success' = dither_new_position(self, x_offset, y_offset)
  /\ UNCHANGED <<ctor, twin, threads, dask, cat, sim, pair>>

\* pointing.dither(x_offset=..., y_offset=...)
Dither(x_offset, y_offset) ==
  /\ self.exists
  /\ n < MaxDithers
  /\ self' = dither(self, x_offset, y_offset)
  /\ op' = [kind |-> "dither", x |-> x_offset, y |-> y_offset,
            outcome |-> "ok"]
  /\ ret' = <<>>
  /\ n' = n + 1
  /\ last_success' = dither_new_position(self, x_offset, y_offset)
  /\ UNCHANGED <<ctor, twin, threads, dask, cat, sim, pair>>

\* pointing.ra, pointing.dec read back
ReadPosition ==
  /\ self.exists
  /\ ret' = <<self.ra, self.dec>>
  /\ op' = [kind |-> "read", x |-> 0, y |-> 0, outcome |-> "ok"]
  /\ UNCHANGED <<self, ctor, n, last_success, twin, threads, dask, cat, sim, pair>>

\* pointing.dither(...) in which the k-th call made by dither raises
DitherRaises(x_offset, y_offset, k) ==
  /\ self.exists
  /\ n < MaxDithers
  /\ n + MaxRaisingCall >= MaxDithers
  /\ self' = dither_raising(self, x_offset, y_offset, k)
  /\ op' = [kind |-> "dither", x |-> x_offset, y |-> y_offset,
            outcome |-> "raised"]
  /\ ret' = <<>>
  /\ n' = n + 1
  /\ UNCHANGED <<ctor, last_success, twin, threads, dask, cat, sim, pair>>

Next ==
  \/ \E ra \in RaArgs, dec \in DecArgs, roll \in RollArgs :
       Construct(ra, dec, roll)
  \/ \E x \in Offsets, y \in Offsets : Dither(x, y)
  \/ ReadPosition

Spec == Init /\ [][Next]_vars

\* the same program when the calls made by dither may raise
NextExc ==
  \/ Next
  \/ \E x \in Offsets, y \in Offsets, k \in 1..4 : DitherRaises(x, y, k)

SpecExc == Init /\ [][NextExc]_vars

(* ------------------ two dither calls on one instance ------------------ *)

\* the two callers of pointing.dither
Callers == {1, 2}

\* finite offset pairs, in arcseconds
FiniteOffsets == {<<0, 0>>, <<RightAngle, 0>>, <<0, RightAngle>>}

\* position of a caller inside dither: the statement it executes next
\*   1 idl_to_sky, 2 attitude, 3 set_attitude_matrix, 4 tel_to_sky,
\*   5 tel_ra, 6 tel_dec, 7 attitude (boresight), 8 posangle, 9 ra, 10 dec
PcReturned == 11

\* a caller about to execute the first statement of dither(d[1], d[2])
caller(d) ==
  [pc |-> 1, x |-> d[1], y |-> d[2], new |-> <<0, 0>>,
   boresight_sky |-> <<0, 0>>]

\* pointing.dither called from two threads on the instance
Spawn(d1, d2) ==
  /\ self.exists
  /\ op.kind = "construct"
  /\ threads = NoThreads
  /\ threads' = [start |-> self, interleaved |-> FALSE,
                 t |-> <<caller(d1), caller(d2)>>]
  /\ UNCHANGED <<self, op, ret, ctor, n, last_success, twin, dask, cat, sim, pair>>

\* caller i is between its first statement and its return
InCall(i) == threads.t[i].pc > 1 /\ threads.t[i].pc < PcReturned

\* caller i is at statement k of dither
At(i, k) == threads # NoThreads /\ threads.t[i].pc = k

\* caller i has executed a statement and holds the locals loc
advance(i, loc) ==
  [threads EXCEPT !.t[i] = [loc EXCEPT !.pc = @ + 1],
                  !.interleaved = @ \/ InCall(3 - i)]

\* new_ra, new_dec = self.siaf_aperture.idl_to_sky(x_offset, y_offset)
CallIdlToSky(i) ==
  /\ At(i, 1)
  /\ threads' = advance(i, [threads.t[i] EXCEPT
                    !.new = dither_new_position(self, threads.t[i].x,
                                                threads.t[i].y)])
  /\ UNCHANGED <<self, op, ret, ctor, n, last_success, twin, dask, cat, sim, pair>>

\* self.attitude_matrix = attitude(v2_ref, v3_ref, new_ra, new_dec, roll_angle)
CallAttitude(i) ==
  /\ At(i, 2)
  /\ self' = dither_attitude(self, threads.t[i].new)
  /\ threads' = advance(i, threads.t[i])
  /\ UNCHANGED <<op, ret, ctor, n, last_success, twin, dask, cat, sim, pair>>

\* a set_attitude_matrix that installs the target attitude of the stored
\* position
call_set_attitude_stored(s) ==
  [s EXCEPT !.siaf_aperture =
     attitude[s.v2_ref, s.v3_ref, s.ra, s.dec, s.roll_angle]]

\* self.siaf_aperture.set_attitude_matrix(self.attitude_matrix)
call_set_attitude(s) == dither_set_attitude(s)

CallSetAttitudeMatrix(i) ==
  /\ At(i, 3)
  /\ self' = call_set_attitude(self)
  /\ threads' = advance(i, threads.t[i])
  /\ UNCHANGED <<op, ret, ctor, n, last_success, twin, dask, cat, sim, pair>>

\* boresight_sky = self.siaf_aperture.tel_to_sky(0, 0)
CallTelToSky(i) ==
  /\ At(i, 4)
  /\ threads' = advance(i, [threads.t[i] EXCEPT
                    !.boresight_sky = tel_to_sky[self.siaf_aperture, 0, 0]])
  /\ UNCHANGED <<self, op, ret, ctor, n, last_success, twin, dask, cat, sim, pair>>

\* self.tel_ra = boresight_sky[0]
CallTelRa(i) ==
  /\ At(i, 5)
  /\ self' = [self EXCEPT !.tel_ra = threads.t[i].boresight_sky[1]]
  /\ threads' = advance(i, threads.t[i])
  /\ UNCHANGED <<op, ret, ctor, n, last_success, twin, dask, cat, sim, pair>>

\* self.tel_dec = boresight_sky[1]
CallTelDec(i) ==
  /\ At(i, 6)
  /\ self' = [self EXCEPT !.tel_dec = threads.t[i].boresight_sky[2]]
  /\ threads' = advance(i, threads.t[i])
  /\ UNCHANGED <<op, ret, ctor, n, last_success, twin, dask, cat, sim, pair>>

\* self.attitude_matrix = attitude(0, 0, self.tel_ra, self.tel_dec, roll_angle)
CallBoresightAttitude(i) ==
  /\ At(i, 7)
  /\ self' = [self EXCEPT !.attitude_matrix =
                attitude[0, 0, self.tel_ra, self.tel_dec, self.roll_angle]]
  /\ threads' = advance(i, threads.t[i])
  /\ UNCHANGED <<op, ret, ctor, n, last_success, twin, dask, cat, sim, pair>>

\* self.tel_roll = posangle(self.attitude_matrix, 0, 0)
CallPosangle(i) ==
  /\ At(i, 8)
  /\ self' = [self EXCEPT !.tel_roll = posangle[self.attitude_matrix, 0, 0]]
  /\ threads' = advance(i, threads.t[i])
  /\ UNCHANGED <<op, ret, ctor, n, last_success, twin, dask, cat, sim, pair>>

\* self.ra = new_ra
CallStoreRa(i) ==
  /\ At(i, 9)
  /\ self' = [self EXCEPT !.ra = threads.t[i].new[1]]
  /\ threads' = advance(i, threads.t[i])
  /\ UNCHANGED <<op, ret, ctor, n, last_success, twin, dask, cat, sim, pair>>

\* self.dec = new_dec
CallStoreDec(i) ==
  /\ At(i, 10)
  /\ self' = [self EXCEPT !.dec = threads.t[i].new[2]]
  /\ threads' = advance(i, threads.t[i])
  /\ UNCHANGED <<op, ret, ctor, n, last_success, twin, dask, cat, sim, pair>>

NextConc ==
  \/ \E ra \in RaArgs, dec \in DecArgs, roll_angle \in RollArgs :
       Construct(ra, dec, roll_angle)
  \/ \E d1 \in FiniteOffsets, d2 \in FiniteOffsets : Spawn(d1, d2)
  \/ \E i \in Callers : CallIdlToSky(i)
  \/ \E i \in Callers : CallAttitude(i)
  \/ \E i \in Callers : CallSetAttitudeMatrix(i)
  \/ \E i \in Callers : CallTelToSky(i)
  \/ \E i \in Callers : CallTelRa(i)
  \/ \E i \in Callers : CallTelDec(i)
  \/ \E i \in Callers : CallBoresightAttitude(i)
  \/ \E i \in Callers : CallPosangle(i)
  \/ \E i \in Callers : CallStoreRa(i)
  \/ \E i \in Callers : CallStoreDec(i)

SpecConc == Init /\ [][NextConc]_vars

(* --------------------------- image simulation ------------------------- *)

\* the WFI detectors are numbered 1 - 18
NumDetectors == 18

\* exposure numbers: run_romanisim's default and the cell's value
ExpNums == {1, 4}

\* data levels given to the simulation; the notebook uses 1 and 2
Levels == {0, 1, 2, 3}

\* the characters of the decimal digits
DigitChars == <<"0", "1", "2", "3", "4", "5", "6", "7", "8", "9">>

\* str(k) for a natural number k, as its characters
RECURSIVE str(_)
str(k) ==
  IF k < 10 THEN <<DigitChars[k + 1]>>
  ELSE str(k \div 10) \o <<DigitChars[(k % 10) + 1]>>

\* '0' * k
RECURSIVE zeros(_)
zeros(k) == IF k <= 0 THEN <<>> ELSE <<"0">> \o zeros(k - 1)

\* f'{k:0{width}d}' for a natural number k: at least width characters,
\* padded with zeros on the left
format_d(k, width) == zeros(width - Len(str(k))) \o str(k)

\* the default root name, 'r0003201001001001004'
rootname ==
  <<"r", "0", "0", "0", "3", "2", "0", "1", "0", "0", "1", "0", "0", "1",
    "0", "0", "1", "0", "0", "4">>

\* a cal_level that names every level but 1 'cal'
cal_level_unless_1(level) ==
  IF level = 1 THEN <<"u", "n", "c", "a", "l">> ELSE <<"c", "a", "l">>

\* cal_level = 'cal' if level == 2 else 'uncal'
cal_level(level) ==
  IF level = 2 THEN <<"c", "a", "l">> ELSE <<"u", "n", "c", "a", "l">>

\* a file name without the detector number
romanisim_filename_no_sca(filename, expnum, sca, level) ==
  filename \o <<"_">> \o format_d(expnum, 4) \o <<"_", "w", "f", "i">>
    \o <<"_">> \o cal_level(level) \o <<".", "a", "s", "d", "f">>

\* run_romanisim: f'{filename}_{expnum:04d}_wfi{sca:02d}_{cal_level}.asdf'
romanisim_filename(filename, expnum, sca, level) ==
  filename \o <<"_">> \o format_d(expnum, 4) \o <<"_", "w", "f", "i">>
    \o format_d(sca, 2) \o <<"_">> \o cal_level(level)
    \o <<".", "a", "s", "d", "f">>

\* the single-image cell:
\* f'r0003201001001001004_0001_wfi{sca:02d}_{cal_level}.asdf'
cell_filename(sca, level) ==
  rootname \o <<"_", "0", "0", "0", "1", "_", "w", "f", "i">>
    \o format_d(sca, 2) \o <<"_">> \o cal_level(level)
    \o <<".", "a", "s", "d", "f">>

\* the single-image cell, run with the given sca and level
SimulateImage(sca, level) ==
  /\ sim' = [phase |-> "cell", sca |-> sca, expnum |-> 1, level |-> level,
             filename |-> cell_filename(sca, level)]
  /\ UNCHANGED <<self, op, ret, ctor, n, last_success, twin, threads, dask,
                 cat, pair>>

\* run_romanisim(catalog, sca=sca, expnum=expnum, level=level)
RunRomanisim(sca, expnum, level) ==
  /\ sim' = [phase |-> "function", sca |-> sca, expnum |-> expnum,
             level |-> level,
             filename |-> romanisim_filename(rootname, expnum, sca, level)]
  /\ UNCHANGED <<self, op, ret, ctor, n, last_success, twin, threads, dask,
                 cat, pair>>

NextSim ==
  \/ \E sca \in 1..NumDetectors, level \in Levels : SimulateImage(sca, level)
  \/ \E sca \in 1..NumDetectors, expnum \in ExpNums, level \in Levels :
       RunRomanisim(sca, expnum, level)

SpecSim == Init /\ [][NextSim]_vars

(* ----------------------- parallelized simulations --------------------- *)

\* the largest n_detectors and offset explored
MaxDetectors == 3

MaxOffset == 3

\* the notebook cell before the parallel one: one dither of the new pointing
FirstDither(x_offset, y_offset) ==
  /\ op.kind = "construct"
  /\ dask = NoDask
  /\ threads = NoThreads
  /\ Dither(x_offset, y_offset)

\* the tasks submitted so far
Tasks(d) == IF d.phase = "none" THEN <<>> ELSE d.tasks

\* keyword arguments that carry the boresight instead of the WFI position
task_kwargs_boresight(s, i, offset, expnum) ==
  [ra |-> s.tel_ra, dec |-> s.tel_dec, sca |-> i + 1 + offset,
   expnum |-> expnum]

\* keyword arguments that number the detectors from offset
task_kwargs_from_offset(s, i, offset, expnum) ==
  [ra |-> s.ra, dec |-> s.dec, sca |-> i + offset, expnum |-> expnum]

\* {'ra': pointing.ra, 'dec': pointing.dec, 'sca': i+1+offset,
\*  'expnum': expnum}, evaluated in the submitting loop
task_kwargs(s, i, offset, expnum) ==
  [ra |-> s.ra, dec |-> s.dec, sca |-> i + 1 + offset, expnum |-> expnum]

\* dask_client = Client(n_workers=n_detectors); tasks = []
DaskClient(n_detectors, offset, expnum) ==
  /\ self.exists
  /\ threads = NoThreads
  /\ dask.phase = "none"
  /\ dask' = [phase |-> "submit", n_detectors |-> n_detectors,
              offset |-> offset, expnum |-> expnum,
              n_workers |-> n_detectors, i |-> 0, tasks |-> <<>>,
              results |-> <<>>]
  /\ UNCHANGED <<self, op, ret, ctor, n, last_success, twin, threads, cat, sim, pair>>

\* one turn of the loop: tasks.append(dask_client.submit(run_romanisim, ...))
Submit ==
  /\ dask.phase = "submit"
  /\ dask.i < dask.n_detectors
  /\ dask' = [dask EXCEPT
                !.tasks = Append(@, [kwargs |-> task_kwargs(self, dask.i,
                                                  dask.offset, dask.expnum),
                                     state |-> "pending",
                                     seen |-> <<>>,
                                     filename |-> <<>>]),
                !.i = @ + 1]
  /\ UNCHANGED <<self, op, ret, ctor, n, last_success, twin, threads, cat, sim, pair>>

\* the number of tasks a worker is running
Running(d) == Cardinality({j \in DOMAIN d.tasks : d.tasks[j].state = "running"})

\* a worker calls run_romanisim(full_catalog, **kwargs) for task j, with
\* the defaults level=2 and filename='r0003201001001001004'
JobStart(j) ==
  /\ dask.phase = "submit"
  /\ j \in DOMAIN dask.tasks
  /\ dask.tasks[j].state = "pending"
  /\ Running(dask) < dask.n_workers
  /\ dask' = [dask EXCEPT
                !.tasks[j].state = "running",
                !.tasks[j].seen = dask.tasks[j].kwargs,
                !.tasks[j].filename =
                  romanisim_filename(rootname, dask.tasks[j].kwargs.expnum,
                                     dask.tasks[j].kwargs.sca, 2)]
  /\ UNCHANGED <<self, op, ret, ctor, n, last_success, twin, threads, cat, sim, pair>>

\* run_romanisim returns for task j
JobFinish(j) ==
  /\ dask.phase = "submit"
  /\ j \in DOMAIN dask.tasks
  /\ dask.tasks[j].state = "running"
  /\ dask' = [dask EXCEPT !.tasks[j].state = "done"]
  /\ UNCHANGED <<self, op, ret, ctor, n, last_success, twin, threads, cat, sim, pair>>

\* a gather that returns without waiting for the tasks
GatherWithoutWaiting ==
  /\ dask.phase = "submit"
  /\ dask.i = dask.n_detectors
  /\ dask' = [dask EXCEPT !.phase = "gathered",
                          !.results = [j \in DOMAIN dask.tasks |-> "None"]]
  /\ UNCHANGED <<self, op, ret, ctor, n, last_success, twin, threads, cat, sim, pair>>

\* results = dask_client.gather(tasks), after the loop
Gather ==
  /\ dask.phase = "submit"
  /\ dask.i = dask.n_detectors
  /\ \A j \in DOMAIN dask.tasks : dask.tasks[j].state = "done"
  /\ dask' = [dask EXCEPT !.phase = "gathered",
                          !.results = [j \in DOMAIN dask.tasks |-> "None"]]
  /\ UNCHANGED <<self, op, ret, ctor, n, last_success, twin, threads, cat, sim, pair>>

\* dask_client.close()
Close ==
  /\ dask.phase = "gathered"
  /\ dask' = [dask EXCEPT !.phase = "closed"]
  /\ UNCHANGED <<self, op, ret, ctor, n, last_success, twin, threads, cat, sim, pair>>

NextDask ==
  \/ \E ra \in RaArgs, dec \in DecArgs, roll_angle \in RollArgs :
       Construct(ra, dec, roll_angle)
  \/ \E d \in FiniteOffsets : FirstDither(d[1], d[2])
  \/ \E n_detectors \in 1..MaxDetectors, offset \in 0..MaxOffset,
        expnum \in ExpNums : DaskClient(n_detectors, offset, expnum)
  \/ Submit
  \/ \E j \in 1..MaxDetectors : JobStart(j)
  \/ \E j \in 1..MaxDetectors : JobFinish(j)
  \/ Gather
  \/ Close

SpecDask == Init /\ [][NextDask]_vars

(* --------------- a second run with another posangle result ------------ *)

\* values posangle returns in the second run, degrees
PosangleResults == {0, 180, NaN}

\* offsets of the dithers of the two runs, one of them not finite
TwinOffsets == FiniteOffsets \cup {<<NaN, 0>>}

\* a posangle that returns r whatever it is asked
posangle_returning(r) == [A \in Matrices, v2 \in Floats, v3 \in Floats |-> r]

\* _update_boresight_position that takes the angle posangle returns as the
\* roll of the boresight attitude
update_boresight_position_with_roll_from(s, angle_of) ==
  LET boresight_sky == tel_to_sky[s.siaf_aperture, 0, 0]
      tel_ra == boresight_sky[1]
      tel_dec == boresight_sky[2]
      am == attitude[0, 0, tel_ra, tel_dec, s.roll_angle]
      tel_roll == angle_of[am, 0, 0]
  IN [s EXCEPT !.tel_ra = tel_ra,
               !.tel_dec = tel_dec,
               !.attitude_matrix = attitude[0, 0, tel_ra, tel_dec, tel_roll],
               !.tel_roll = tel_roll]

\* PointWFI._update_boresight_position, with angle_of for
\* pysiaf.utils.rotations.posangle
update_boresight_position_with(s, angle_of) ==
  LET boresight_sky == tel_to_sky[s.siaf_aperture, 0, 0]
      tel_ra == boresight_sky[1]
      tel_dec == boresight_sky[2]
      am == attitude[0, 0, tel_ra, tel_dec, s.roll_angle]
  IN [s EXCEPT !.tel_ra = tel_ra,
               !.tel_dec = tel_dec,
               !.attitude_matrix = am,
               !.tel_roll = angle_of[am, 0, 0]]

\* the dataclass __init__ followed by PointWFI.__post_init__, with angle_of
\* for posangle
post_init_with(ra, dec, roll_angle, angle_of) ==
  LET am == attitude[V2Ref, V3Ref, ra, dec, roll_angle]
  IN update_boresight_position_with(
       [exists |-> TRUE, ra |-> ra, dec |-> dec, roll_angle |-> roll_angle,
        v2_ref |-> V2Ref, v3_ref |-> V3Ref,
        attitude_matrix |-> am,
        siaf_aperture |-> am,
        tel_ra |-> 0, tel_dec |-> 0, tel_roll |-> 0], angle_of)

\* PointWFI.dither(x_offset, y_offset), with angle_of for posangle
dither_with(s, x_offset, y_offset, angle_of) ==
  LET new == dither_new_position(s, x_offset, y_offset)
  IN dither_store(
       update_boresight_position_with(
         dither_set_attitude(dither_attitude(s, new)), angle_of), new)

\* PointWFI(ra, dec, roll_angle) in both runs; posangle returns r in the second
TwinConstruct(ra, dec, roll_angle, r) ==
  /\ ~self.exists
  /\ self' = post_init(ra, dec, roll_angle)
  /\ twin' = post_init_with(ra, dec, roll_angle, posangle_returning(r))
  /\ op' = [kind |-> "construct", x |-> 0, y |-> 0, outcome |-> "ok"]
  /\ ret' = <<>>
  /\ ctor' = <<ra, dec, roll_angle>>
  /\ n' = 0
  /\ last_success' = <<ra, dec>>
  /\ UNCHANGED <<threads, dask, cat, sim, pair>>

\* pointing.dither(x_offset, y_offset) in both runs; posangle returns r in
\* the second
TwinDither(x_offset, y_offset, r) ==
  /\ self.exists
  /\ twin.exists
  /\ n < MaxDithers
  /\ self' = dither(self, x_offset, y_offset)
  /\ twin' = dither_with(twin, x_offset, y_offset, posangle_returning(r))
  /\ op' = [kind |-> "dither", x |-> x_offset, y |-> y_offset,
            outcome |-> "ok"]
  /\ ret' = <<>>
  /\ n' = n + 1
  /\ last_success' = dither_new_position(self, x_offset, y_offset)
  /\ UNCHANGED <<ctor, threads, dask, cat, sim, pair>>

NextTwin ==
  \/ \E ra \in RaArgs, dec \in DecArgs, roll_angle \in RollArgs,
        r \in PosangleResults : TwinConstruct(ra, dec, roll_angle, r)
  \/ \E d \in TwinOffsets, r \in PosangleResults :
       TwinDither(d[1], d[2], r)

SpecTwin == Init /\ [][NextTwin]_vars

(* -------------------------- catalog cleaning -------------------------- *)

\* the largest number of catalog rows explored
MaxRows == 2

\* the IEEE infinity
Inf == NaN - 1

\* np.isfinite
isfinite(v) == v # NaN /\ v # Inf

\* gaia_catalog.dtype.names, in the orders explored: a position, a shape
\* and two flux columns
DtypeNames ==
  {<<"ra", "dec", "half_light_radius", "F062", "F158">>,
   <<"F158", "ra", "half_light_radius", "F062", "dec">>}

\* f[0] for a column name f
FirstChar ==
  [f \in {"ra", "dec", "half_light_radius", "F062", "F158"} |->
     CASE f = "ra" -> "r"
       [] f = "dec" -> "d"
       [] f = "half_light_radius" -> "h"
       [] OTHER -> "F"]

\* a table entry: its value and whether it is masked
ok == [v |-> 1, m |-> FALSE]

nan == [v |-> NaN, m |-> FALSE]

inf == [v |-> Inf, m |-> FALSE]

masked == [v |-> 1, m |-> TRUE]

\* a row with every entry present
complete_row == [f \in DOMAIN FirstChar |-> ok]

\* rows of a table without masks
PlainRows ==
  {complete_row}
    \cup {[complete_row EXCEPT ![f] = nan] : f \in DOMAIN FirstChar}
    \cup {[complete_row EXCEPT !["F158"] = inf],
          [complete_row EXCEPT !["F062"] = nan, !["dec"] = inf]}

\* rows of a masked table
MaskedRows ==
  PlainRows
    \cup {[complete_row EXCEPT ![f] = masked] : f \in DOMAIN FirstChar}
    \cup {[complete_row EXCEPT !["ra"] = masked, !["F062"] = nan]}

\* catalogs of at most MaxRows rows
Catalogs(rows) ==
  UNION {[1..len -> rows] : len \in 0..MaxRows}

\* names = [f for f in gaia_catalog.dtype.names if f[0] == 'F']
\* names += ['ra', 'dec']
names_of(dtype_names) ==
  LET F(f) == FirstChar[f] = "F"
  IN SelectSeq(dtype_names, F) \o <<"ra", "dec">>

\* a test that never looks at the mask
bad_entry_unmasked(entry, has_mask) == ~isfinite(entry.v)

\* bad = ~np.isfinite(gaia_catalog[b]);
\* if hasattr(gaia_catalog[b], 'mask'): bad |= gaia_catalog[b].mask
bad_entry(entry, has_mask) ==
  ~isfinite(entry.v) \/ (has_mask /\ entry.m)

\* gaia_catalog = gaia_catalog[~bad], for column b
reject(catalog, b, has_mask) ==
  LET Good(row) == ~bad_entry(row[b], has_mask)
  IN SelectSeq(catalog, Good)

\* gaia_catalog as gaia2romanisimcat returns it; names; bad = np.zeros(...)
LoadCatalog(dtype_names, has_mask, rows) ==
  /\ cat.phase = "none"
  /\ ~self.exists
  /\ cat' = [phase |-> "loop", dtype_names |-> dtype_names,
             has_mask |-> has_mask, original |-> rows,
             gaia_catalog |-> rows, names |-> names_of(dtype_names),
             k |-> 0, bad |-> [i \in DOMAIN rows |-> FALSE]]
  /\ UNCHANGED <<self, op, ret, ctor, n, last_success, twin, threads, dask, sim, pair>>

\* one turn of the loop: for b in names
RejectColumn ==
  /\ cat.phase = "loop"
  /\ cat.k < Len(cat.names)
  /\ LET b == cat.names[cat.k + 1]
     IN cat' = [cat EXCEPT
                  !.bad = [i \in DOMAIN cat.gaia_catalog |->
                             bad_entry(cat.gaia_catalog[i][b], cat.has_mask)],
                  !.gaia_catalog = reject(cat.gaia_catalog, b, cat.has_mask),
                  !.k = @ + 1]
  /\ UNCHANGED <<self, op, ret, ctor, n, last_success, twin, threads, dask, sim, pair>>

\* the loop has run over all names
LoopDone ==
  /\ cat.phase = "loop"
  /\ cat.k = Len(cat.names)
  /\ cat' = [cat EXCEPT !.phase = "done"]
  /\ UNCHANGED <<self, op, ret, ctor, n, last_success, twin, threads, dask, sim, pair>>

NextCat ==
  \/ \E dtype_names \in DtypeNames, rows \in Catalogs(PlainRows) :
       LoadCatalog(dtype_names, FALSE, rows)
  \/ \E dtype_names \in DtypeNames, rows \in Catalogs(MaskedRows) :
       LoadCatalog(dtype_names, TRUE, rows)
  \/ RejectColumn
  \/ LoopDone

SpecCat == Init /\ [][NextCat]_vars

(* ------------------------- two PointWFI objects ----------------------- *)

\* the largest number of dithers made on the two objects together
MaxPairDithers == 2

\* the two PointWFI objects
Instances == {1, 2}

\* a Siaf that hands out again the aperture object it made last
latest_aperture(p) == IF p.apertures = <<>> THEN 1 ELSE Len(p.apertures)

\* a Siaf that hands out the aperture object it made first
cached_aperture(p) == 1

\* pysiaf.Siaf('Roman')['WFI_CEN']: a new aperture object
new_aperture(p) == Len(p.apertures) + 1

\* instance i with the attitude of the aperture object it refers to
deref(p, i) ==
  IF p.inst[i].exists
  THEN [p.inst[i] EXCEPT !.siaf_aperture = p.apertures[@]]
  ELSE NoInstance

\* the instances and aperture objects after instance i, holding aperture
\* object a, has become s
put(p, i, a, s) ==
  [p EXCEPT
     !.inst[i] = [s EXCEPT !.siaf_aperture = a],
     !.apertures = [b \in DOMAIN p.apertures \cup {a} |->
                      IF b = a THEN s.siaf_aperture ELSE p.apertures[b]],
     !.last = i]

\* PointWFI(ra, dec, roll_angle) for the i-th object
PairConstruct(i, ra, dec, roll_angle) ==
  /\ ~pair.inst[i].exists
  /\ i = 2 => pair.inst[1].exists
  /\ pair' = put(pair, i, new_aperture(pair), post_init(ra, dec, roll_angle))
  /\ UNCHANGED <<self, op, ret, ctor, n, last_success, twin, threads, dask,
                 cat, sim>>

\* dither(x_offset, y_offset) on the i-th object
PairDither(i, x_offset, y_offset) ==
  /\ pair.inst[i].exists
  /\ pair.k < MaxPairDithers
  /\ pair' = [put(pair, i, pair.inst[i].siaf_aperture,
                  dither(deref(pair, i), x_offset, y_offset))
                EXCEPT !.k = @ + 1]
  /\ UNCHANGED <<self, op, ret, ctor, n, last_success, twin, threads, dask,
                 cat, sim>>

NextPair ==
  \/ \E i \in Instances, ra \in RaArgs, dec \in DecArgs,
        roll_angle \in RollArgs : PairConstruct(i, ra, dec, roll_angle)
  \/ \E i \in Instances, d \in FiniteOffsets : PairDither(i, d[1], d[2])

SpecPair == Init /\ [][NextPair]_vars

\* two objects constructed with the same arguments, one after the other
BothConstruct(ra, dec, roll_angle) ==
  /\ ~pair.inst[1].exists
  /\ LET first == put(pair, 1, new_aperture(pair),
                      post_init(ra, dec, roll_angle))
     IN pair' = put(first, 2, new_aperture(first),
                    post_init(ra, dec, roll_angle))
  /\ UNCHANGED <<self, op, ret, ctor, n, last_success, twin, threads, dask,
                 cat, sim>>

\* the next dither of object i, out of one sequence of offsets for both:
\* the object that is ahead chooses the offsets, the other one repeats them
SameDither(i, x_offset, y_offset) ==
  /\ pair.inst[1].exists
  /\ pair.inst[2].exists
  /\ IF pair.done[i] < Len(pair.offsets)
       THEN <<x_offset, y_offset>> = pair.offsets[pair.done[i] + 1]
       ELSE Len(pair.offsets) < MaxDithers
  /\ pair' = [put(pair, i, pair.inst[i].siaf_aperture,
                  dither(deref(pair, i), x_offset, y_offset))
                EXCEPT !.done[i] = @ + 1,
                       !.offsets = IF pair.done[i] < Len(pair.offsets)
                                     THEN @
                                     ELSE Append(@, <<x_offset, y_offset>>)]
  /\ UNCHANGED <<self, op, ret, ctor, n, last_success, twin, threads, dask,
                 cat, sim>>

NextBoth ==
  \/ \E ra \in RaArgs, dec \in DecArgs, roll_angle \in RollArgs :
       BothConstruct(ra, dec, roll_angle)
  \/ \E i \in Instances, d \in TwinOffsets : SameDither(i, d[1], d[2])

SpecBoth == Init /\ [][NextBoth]_vars

(* ------------------------------ claims -------------------------------- *)

\* the attitude the class means to keep: built from the aperture's
\* reference point and the stored target position
TargetAttitude(s) == attitude[s.v2_ref, s.v3_ref, s.ra, s.dec, s.roll_angle]

IsDither(o) == o.kind = "dither"

IsOkDither(o) == o.kind = "dither" /\ o.outcome = "ok"

\* C1: in every state of an instance, attitude_matrix equals
\* attitude(v2_ref, v3_ref, ra, dec, roll_angle) of the stored fields.
C1_AttitudeMatrixConsistent ==
  self.exists => self.attitude_matrix = TargetAttitude(self)

\* C2: a dither with a non-finite offset fails with InvalidArgument and
\* leaves every field of the instance as it was.
C2_NonFiniteOffsetRejected ==
  [][(IsDither(op') /\ (~Finite(op'.x) \/ ~Finite(op'.y)))
       => (op'.outcome = "InvalidArgument" /\ self' = self)]_vars

\* C3: constructing with dec outside [-90, 90] fails with InvalidArgument
\* and no instance exists afterwards.
C3_InvalidDecRejected ==
  (op.kind = "construct" /\ ~ValidDec(ctor[2]))
    => (op.outcome = "InvalidArgument" /\ ~self.exists)

\* C4: when a call made by dither raises, ra, dec, attitude_matrix and the
\* aperture's attitude all keep their values from before the dither.
C4_DitherAllOrNothing ==
  [][(IsDither(op') /\ op'.outcome = "raised")
       => /\ self'.ra = self.ra
          /\ self'.dec = self.dec
          /\ self'.attitude_matrix = self.attitude_matrix
          /\ self'.siaf_aperture = self.siaf_aperture]_vars

\* C5: every dither is evaluated in the frame anchored at the position
\* stored by the previous operation (the constructor or the previous
\* dither): its result is idl_to_sky of the offset under the attitude built
\* from the (ra, dec) stored before the call.
C5_DitherRelativeToPrevious ==
  [][IsOkDither(op')
       => <<self'.ra, self'.dec>>
            = idl_to_sky[TargetAttitude(self), op'.x, op'.y]]_vars

\* a second dither has run from a position that is not the constructor's
C5_Witness ==
  /\ self.exists
  /\ IsOkDither(op)
  /\ n >= 2
  /\ Finite(self.ra)
  /\ <<self.ra, self.dec>> # <<ctor[1], ctor[2]>>
  /\ self.siaf_aperture # attitude[V2Ref, V3Ref, ctor[1], ctor[2], ctor[3]]

\* C6: a successful dither(x, y) stores (new_ra, new_dec) = idl_to_sky(x, y)
\* under the aperture attitude in force before the call, installs
\* attitude(v2_ref, v3_ref, new_ra, new_dec, roll_angle) on the aperture,
\* and returns nothing.
C6_DitherEffect ==
  [][IsOkDither(op')
       => LET new == idl_to_sky[self.siaf_aperture, op'.x, op'.y]
          IN /\ self'.siaf_aperture
                  = attitude[self.v2_ref, self.v3_ref, new[1], new[2],
                             self.roll_angle]
             /\ self'.ra = new[1]
             /\ self'.dec = new[2]
             /\ ret' = <<>>]_vars

\* a dither by a finite non-zero offset has moved the pointing
C6_Witness ==
  /\ self.exists
  /\ IsOkDither(op)
  /\ Finite(op.x) /\ Finite(op.y) /\ op.x # 0
  /\ self.siaf_aperture # attitude[V2Ref, V3Ref, ctor[1], ctor[2], ctor[3]]

\* C7: reading the position right after construction returns exactly the
\* constructor's ra and dec.
C7_ConstructThenRead ==
  (op.kind = "read" /\ n = 0) => ret = <<ctor[1], ctor[2]>>

\* the position has been read right after a valid construction
C7_Witness ==
  /\ op.kind = "read"
  /\ n = 0
  /\ ValidDec(ctor[2])
  /\ ret = <<90, 0>>

\* C8: the readable position is the result of the most recent successful
\* dither, or the constructor's values when none has succeeded; a dither
\* that raised does not change it.
C8_PositionIsLatestSuccess ==
  self.exists
    => /\ <<self.ra, self.dec>> = last_success
       /\ (op.kind = "read" => ret = last_success)

\* a dither has raised after the attitude was already replaced, following a
\* dither that succeeded
C8_Witness ==
  /\ self.exists
  /\ IsDither(op)
  /\ op.outcome = "raised"
  /\ n >= 2
  /\ last_success # <<ctor[1], ctor[2]>>
  /\ self.siaf_aperture # TargetAttitude(self)

\* the position has the canonical form radec returns, away from the poles
Canonical(ra, dec) ==
  /\ Finite(ra) /\ Finite(dec)
  /\ 0 <= ra /\ ra < 360
  /\ -90 < dec /\ dec < 90

IsZeroDither(o) == IsOkDither(o) /\ o.x = 0 /\ o.y = 0

C10_RollAngleFixed ==
  self.exists => self.roll_angle = ctor[3]

\* dithers have run on an instance built with a non-zero roll angle
C10_Witness ==
  /\ self.exists
  /\ IsOkDither(op)
  /\ n >= 2
  /\ ctor[3] = 270
  /\ self.tel_roll # ctor[3]

\* C11: v2_ref and v3_ref hold the aperture's V2Ref and V3Ref from
\* construction on; no dither and no boresight update changes them.
C11_ReferenceOffsetsFixed ==
  /\ [](self.exists => (self.v2_ref = V2Ref /\ self.v3_ref = V3Ref))
  /\ [][self.exists
          => (self'.v2_ref = self.v2_ref /\ self'.v3_ref = self.v3_ref)]_vars

\* dithers, one of them by a non-finite offset, have run on the instance
C11_Witness ==
  /\ self.exists
  /\ IsOkDither(op)
  /\ n >= 2
  /\ ~Finite(self.ra)
  /\ self.v2_ref = RightAngle

\* C12: in every state of an instance the position can be read and dither
\* can be called (up to the number of dithers explored); only a dither
\* changes the instance, and each successful dither moves Dithered-N to
\* Dithered-(N+1).
C12_Lifecycle ==
  /\ [](self.exists
          => /\ ENABLED ReadPosition
             /\ n < MaxDithers
                  => ENABLED (\E x \in Offsets, y \in Offsets : Dither(x, y)))
  /\ [][/\ (self.exists /\ self' # self) => IsDither(op')
        /\ IsOkDither(op') => n' = n + 1
        /\ (self.exists /\ ~IsDither(op')) => n' = n]_vars

\* the instance has been read in state Dithered-2, with a dither to go
C12_Witness ==
  /\ self.exists
  /\ op.kind = "read"
  /\ n = 2
  /\ n < MaxDithers
  /\ ret # <<ctor[1], ctor[2]>>

\* both concurrent calls have returned
BothReturned ==
  /\ threads # NoThreads
  /\ \A i \in Callers : threads.t[i].pc = PcReturned

\* the stored (ra, dec) corresponds to the attitude installed on the aperture
Corresponds(s) == s.siaf_aperture = TargetAttitude(s)

\* the instance after the two calls, one after the other, in both orders
SerialOrders ==
  LET s0 == threads.start
      a == threads.t[1]
      b == threads.t[2]
  IN {dither(dither(s0, a.x, a.y), b.x, b.y),
      dither(dither(s0, b.x, b.y), a.x, a.y)}

\* C13: two dither calls on one instance are safe only when their
\* statements do not interleave: after both return, a stored (ra, dec) that
\* does not correspond to the installed attitude, or an instance that matches
\* neither serial order, comes from an interleaving, and such a state is
\* reachable.
C13_UnsafeOnlyByInterleaving ==
  (BothReturned /\ ~threads.interleaved)
    => (Corresponds(self) /\ self \in SerialOrders)

\* both calls have returned, and the stored position does not correspond to
\* the aperture's attitude and is the position of neither serial order
C13_Witness ==
  /\ BothReturned
  /\ threads.interleaved
  /\ ~Corresponds(self)
  /\ \A s \in SerialOrders : <<s.ra, s.dec>> # <<self.ra, self.dec>>

\* C14: a job's arguments are the pointing's ra and dec as read when the job
\* is submitted; they never change afterwards, the job sees exactly them
\* whenever it runs, and no step of the parallel cell changes the instance.
C14_JobsShareNoState ==
  [][/\ \A j \in DOMAIN Tasks(dask') :
          /\ j \in DOMAIN Tasks(dask)
               => Tasks(dask')[j].kwargs = Tasks(dask)[j].kwargs
          /\ j \notin DOMAIN Tasks(dask)
               => /\ Tasks(dask')[j].kwargs.ra = self.ra
                  /\ Tasks(dask')[j].kwargs.dec = self.dec
          /\ Tasks(dask')[j].state # "pending"
               => Tasks(dask')[j].seen = Tasks(dask')[j].kwargs
     /\ dask' # dask => self' = self]_vars

\* the second job has finished before the first has started, on a dithered
\* pointing whose boresight is elsewhere
C14_Witness ==
  /\ dask.phase = "submit"
  /\ Len(dask.tasks) >= 2
  /\ dask.tasks[1].state = "pending"
  /\ dask.tasks[2].state = "done"
  /\ dask.tasks[2].seen.ra = self.ra
  /\ IsOkDither(op)
  /\ <<self.ra, self.dec>> # <<self.tel_ra, self.tel_dec>>

\* the detectors of the submitted jobs
Detectors(d) == {d.tasks[j].kwargs.sca : j \in DOMAIN d.tasks}

\* C19: once the loop has submitted its jobs, there is one job per detector
\* offset+1 .. offset+n_detectors and no other, every job carries the same
\* expnum, and a job that runs simulates the detector it was submitted for.
C19_OneJobPerDetector ==
  (dask.phase # "none" /\ dask.i = dask.n_detectors)
    => /\ Len(dask.tasks) = dask.n_detectors
       /\ Detectors(dask) = (dask.offset + 1)..(dask.offset + dask.n_detectors)
       /\ \A j \in DOMAIN dask.tasks :
            /\ dask.tasks[j].kwargs.expnum = dask.expnum
            /\ dask.tasks[j].state # "pending"
                 => dask.tasks[j].seen.sca = dask.tasks[j].kwargs.sca

\* n_detectors = 3 and offset = 3: detectors 4, 5 and 6 have been simulated
C19_Witness ==
  /\ dask.phase = "closed"
  /\ dask.n_detectors = 3
  /\ dask.offset = 3
  /\ Detectors(dask) = {4, 5, 6}
  /\ \A j \in DOMAIN dask.tasks : dask.tasks[j].seen.expnum = 4

\* the (ra, dec) stored after dithering s by d1 and then by d2
DitherTwice(s, d1, d2) ==
  LET s2 == dither(dither(s, d1[1], d1[2]), d2[1], d2[2])
  IN <<s2.ra, s2.dec>>

\* C15: from every freshly constructed pointing there are two offsets whose
\* dithers end at different (ra, dec) in the two orders.
C15_DithersDoNotCommute ==
  (self.exists /\ op.kind = "construct")
    => \E d1 \in FiniteOffsets, d2 \in FiniteOffsets :
         DitherTwice(self, d1, d2) # DitherTwice(self, d2, d1)

\* two dithers have run, and the other order would have ended elsewhere
C15_Witness ==
  /\ self.exists /\ n = 2 /\ IsOkDither(op)
  /\ \E d1 \in FiniteOffsets :
       LET s0 == post_init(ctor[1], ctor[2], ctor[3])
           d2 == <<op.x, op.y>>
       IN /\ d2 \in FiniteOffsets
          /\ self = dither(dither(s0, d1[1], d1[2]), d2[1], d2[2])
          /\ DitherTwice(s0, d2, d1) # <<self.ra, self.dec>>

\* C18: a run in which posangle returns other values has the same ra, dec,
\* roll_angle, reference offsets, attitude matrix, aperture attitude and
\* boresight after every sequence of dithers; only tel_roll, where the
\* result is kept, differs.
C18_PosangleDiagnosticOnly ==
  self.exists
    => /\ twin.exists
       /\ [twin EXCEPT !.tel_roll = self.tel_roll] = self

\* after two dithers the runs hold different position angles and the same
\* moved position
C18_Witness ==
  /\ self.exists /\ twin.exists
  /\ n >= 2 /\ IsOkDither(op)
  /\ twin.tel_roll # self.tel_roll
  /\ Finite(self.ra)
  /\ <<twin.ra, twin.dec>> = <<self.ra, self.dec>>
  /\ <<self.ra, self.dec>> # <<ctor[1], ctor[2]>>

\* the columns the cleaning is about: the flux columns, ra and dec
CleanedColumns ==
  {f \in DOMAIN FirstChar : FirstChar[f] = "F"} \cup {"ra", "dec"}

\* the row is finite and unmasked in every cleaned column
CompleteRow(row) ==
  \A f \in CleanedColumns : isfinite(row[f].v) /\ ~row[f].m

\* C20: after the loop the catalog holds, in their order, exactly the rows
\* of the original catalog that are finite and unmasked in every flux column,
\* in ra and in dec.
C20_CleaningKeepsCompleteRows ==
  cat.phase = "done"
    => cat.gaia_catalog = SelectSeq(cat.original, CompleteRow)

\* a masked catalog with a complete row first and a row masked in a flux
\* column second has been cleaned down to the complete row, with a flux
\* column first in the table
C20_Witness ==
  /\ cat.phase = "done"
  /\ cat.has_mask
  /\ cat.dtype_names[1] = "F158"
  /\ Len(cat.original) = 2
  /\ cat.original[1] = complete_row
  /\ cat.original[2] = [complete_row EXCEPT !["F062"] = masked]
  /\ cat.gaia_catalog = <<complete_row>>

\* the sequence s ends with the sequence t
EndsWith(s, t) ==
  Len(s) >= Len(t) /\ SubSeq(s, Len(s) - Len(t) + 1, Len(s)) = t

\* the characters of '_cal.asdf' and of '_uncal.asdf'
CalSuffix == <<"_", "c", "a", "l", ".", "a", "s", "d", "f">>

UncalSuffix == <<"_", "u", "n", "c", "a", "l", ".", "a", "s", "d", "f">>

\* the file name without the given suffix
Stem(name, suffix) == SubSeq(name, 1, Len(name) - Len(suffix))

\* the file name the same code gives at level 2
NameAtLevel2 ==
  IF sim.phase = "cell" THEN cell_filename(sim.sca, 2)
  ELSE romanisim_filename(rootname, sim.expnum, sim.sca, 2)

\* C21: the file name ends in '_cal.asdf' exactly when level == 2 and in
\* '_uncal.asdf' for every other level, in the single-image cell and in
\* run_romanisim, and the name before the suffix does not depend on the level.
C21_SuffixEncodesLevel ==
  sim.phase # "none"
    => /\ EndsWith(sim.filename, CalSuffix) <=> sim.level = 2
       /\ EndsWith(sim.filename, UncalSuffix) <=> sim.level # 2
       /\ Stem(sim.filename,
               IF sim.level = 2 THEN CalSuffix ELSE UncalSuffix)
            = Stem(NameAtLevel2, CalSuffix)

\* run_romanisim has named a file for a level that is neither 1 nor 2
C21_Witness ==
  /\ sim.phase = "function"
  /\ sim.level = 3
  /\ sim.sca = 13
  /\ sim.expnum = 4
  /\ EndsWith(sim.filename, <<"4", "_", "w", "f", "i", "1", "3">> \o UncalSuffix)

\* C22: the client is closed only after gather has returned, and gather
\* returns only when every job of the loop has been submitted and has
\* finished: no job is pending or running once gather has returned, and
\* close follows a returned gather.
C22_CloseAfterGather ==
  /\ [](dask.phase \in {"gathered", "closed"}
          => /\ Len(dask.tasks) = dask.n_detectors
             /\ \A j \in DOMAIN dask.tasks : dask.tasks[j].state = "done"
             /\ DOMAIN dask.results = DOMAIN dask.tasks)
  /\ [][(dask.phase # "closed" /\ dask'.phase = "closed")
          => dask.phase = "gathered"]_vars

\* the client has been closed after three jobs
C22_Witness ==
  /\ dask.phase = "closed"
  /\ Len(dask.tasks) = 3
  /\ \A j \in 1..3 : dask.tasks[j].state = "done"
  /\ Len(dask.results) = 3

\* C23: after construction and after each completed dither the attitude
\* installed on the aperture is attitude(v2_ref, v3_ref, ra, dec, roll_angle)
\* for the stored ra and dec, whatever the attitude_matrix attribute holds.
C23_ApertureAttitudeConsistent ==
  self.exists
    => self.siaf_aperture
         = attitude[self.v2_ref, self.v3_ref, self.ra, self.dec,
                    self.roll_angle]

\* after a dither that moved a finite pointing, the attitude_matrix
\* attribute has been overwritten and differs from the aperture's attitude
C23_Witness ==
  /\ self.exists /\ IsOkDither(op) /\ n >= 1
  /\ Finite(self.ra) /\ Finite(self.dec)
  /\ <<self.ra, self.dec>> # <<ctor[1], ctor[2]>>
  /\ self.attitude_matrix # self.siaf_aperture
  /\ self.siaf_aperture = TargetAttitude(self)

\* C24: after construction and after each completed dither the
\* attitude_matrix attribute is the boresight attitude
\* attitude(0, 0, tel_ra, tel_dec, roll_angle), not the attitude built from
\* (v2_ref, v3_ref, ra, dec, roll_angle).
C24_AttitudeMatrixIsBoresight ==
  self.exists
    => self.attitude_matrix
         = attitude[0, 0, self.tel_ra, self.tel_dec, self.roll_angle]

\* after two dithers the attribute holds the boresight attitude, which is
\* not the attitude of the stored position
C24_Witness ==
  /\ self.exists /\ IsOkDither(op) /\ n = 2
  /\ Finite(self.tel_ra) /\ Finite(self.tel_dec)
  /\ self.attitude_matrix
       = attitude[0, 0, self.tel_ra, self.tel_dec, self.roll_angle]
  /\ self.attitude_matrix # TargetAttitude(self)

\* C25: after construction and after each completed dither, (tel_ra,
\* tel_dec) is tel_to_sky(0, 0) under the attitude built from the stored
\* (ra, dec, roll_angle), and tel_roll is the position angle of the boresight
\* attitude.
C25_BoresightConsistent ==
  self.exists
    => /\ <<self.tel_ra, self.tel_dec>>
            = tel_to_sky[attitude[self.v2_ref, self.v3_ref, self.ra,
                                  self.dec, self.roll_angle], 0, 0]
       /\ self.tel_roll
            = posangle[attitude[0, 0, self.tel_ra, self.tel_dec,
                                self.roll_angle], 0, 0]

\* a dither has moved a finite pointing, and the boresight, which is not the
\* WFI position, belongs to the new position
C25_Witness ==
  /\ self.exists /\ IsOkDither(op) /\ n >= 1
  /\ Finite(self.ra) /\ Finite(self.dec)
  /\ <<self.ra, self.dec>> # <<ctor[1], ctor[2]>>
  /\ <<self.tel_ra, self.tel_dec>> # <<self.ra, self.dec>>
  /\ <<self.tel_ra, self.tel_dec>> = tel_to_sky[TargetAttitude(self), 0, 0]
  /\ <<self.tel_ra, self.tel_dec>>
       # tel_to_sky[attitude[V2Ref, V3Ref, ctor[1], ctor[2], ctor[3]], 0, 0]

\* C26: an operation on one PointWFI object leaves every other object as it
\* was: its ra, dec, attitude_matrix, boresight fields and the attitude of
\* its aperture object.
C26_InstancesIndependent ==
  [][\A j \in Instances :
       (pair.inst[j].exists /\ pair'.last # j)
         => deref(pair', j) = deref(pair, j)]_vars

\* the second object has been dithered to a new position and aperture
\* attitude after the first one was, and the two objects differ
C26_Witness ==
  /\ pair.inst[1].exists /\ pair.inst[2].exists
  /\ pair.k = 2
  /\ pair.last = 2
  /\ pair.inst[1].siaf_aperture # pair.inst[2].siaf_aperture
  /\ deref(pair, 1).siaf_aperture # deref(pair, 2).siaf_aperture
  /\ <<deref(pair, 1).ra, deref(pair, 1).dec>>
       # <<deref(pair, 2).ra, deref(pair, 2).dec>>
  /\ deref(pair, 1).siaf_aperture = TargetAttitude(deref(pair, 1))
  /\ deref(pair, 2).siaf_aperture = TargetAttitude(deref(pair, 2))

\* C27: two objects constructed with the same arguments and given the same
\* sequence of dithers hold, after the same number of them, the same ra, dec,
\* roll_angle, attitudes and boresight fields, however their calls interleave.
C27_Deterministic ==
  pair.inst[1].exists
    => /\ pair.inst[2].exists
       /\ pair.done[1] = pair.done[2] => deref(pair, 1) = deref(pair, 2)

\* the second object has caught up with the three dithers of the first:
\* both are at the same finite position, each on its own aperture object
C27_Witness ==
  /\ pair.inst[1].exists /\ pair.inst[2].exists
  /\ pair.done = <<3, 3>>
  /\ pair.last = 2
  /\ pair.offsets[1] # pair.offsets[2]
  /\ pair.inst[1].siaf_aperture # pair.inst[2].siaf_aperture
  /\ Finite(deref(pair, 2).ra)
  /\ deref(pair, 1) = deref(pair, 2)

\* ra is in [0, 360) and dec is in [-90, 90]
InRange(ra, dec) ==
  /\ Finite(ra) /\ 0 <= ra /\ ra < 360
  /\ Finite(dec) /\ -90 <= dec /\ dec <= 90

\* C28: an instance constructed with ra in [0, 360) and dec in [-90, 90]
\* holds an ra in [0, 360) and a dec in [-90, 90] after any sequence of
\* dithers that returned normally.
C28_RangePreserved ==
  (self.exists /\ InRange(ctor[1], ctor[2])) => InRange(self.ra, self.dec)

\* the jobs that have built their output file name
Named(d) == {j \in DOMAIN Tasks(d) : Tasks(d)[j].state # "pending"}

\* C29: two jobs of one run of the parallel cell never write the same file:
\* their file names carry their detector numbers, which differ.
C29_OutputFilesDistinct ==
  \A j \in Named(dask), k \in Named(dask) :
    j # k => /\ dask.tasks[j].filename # dask.tasks[k].filename
             /\ dask.tasks[j].seen.sca # dask.tasks[k].seen.sca

\* three jobs of one run, for detectors 4, 5 and 6 and exposure 4, have
\* written three files
C29_Witness ==
  /\ dask.phase = "closed"
  /\ dask.n_detectors = 3
  /\ dask.offset = 3
  /\ dask.expnum = 4
  /\ \A j \in 1..3 :
       EndsWith(dask.tasks[j].filename,
                <<"_", "0", "0", "0", "4", "_", "w", "f", "i", "0",
                  DigitChars[j + 4]>> \o CalSuffix)
  /\ Cardinality({dask.tasks[j].filename : j \in 1..3}) = 3

====
